---------------------------- MODULE Spec2Model ----------------------------
(***************************************************************************)
(* Dataset-wrangler toolkit: split_dataset.py, cleanup_dataset.py and      *)
(* batch_rename_images.py as state machines.                               *)
(*                                                                         *)
(* Ratios are Python floats in the source.  Here a ratio is an integer     *)
(* number of units of 1/Scale (1e-7), so that the 1e-6 tolerance of        *)
(* validate_ratios distinguishes sums that differ from 1.0 by less than    *)
(* the tolerance.  Products are exact; binary rounding of the float        *)
(* product is not modelled.                                                *)
(***************************************************************************)
EXTENDS Integers, Sequences, FiniteSets, TLC

VARIABLES
    \* ---- split_dataset.py: main ----
    s_pc,        \* position of main
    args,        \* parsed command line: ratios, move, preview
    src0,        \* files of the source directory when main starts
    src_dir,     \* files of the source directory now
    files,       \* main's local list `files`
    subsets,     \* main's dict `subsets`, in insertion order train, val, test
    dest_dirs,   \* subset directories that exist under dest_dir
    dest_files,  \* <<subset, filename>> present under dest_dir
    todo,        \* remaining (subset, filename) iterations of the placement loop
    moved, copied, errs,
    \* ---- split_dataset.py: split_indices called on its own ----
    i_pc, i_n, i_ratios, i_idx,
    \* ---- cleanup_dataset.py: main ----
    c_pc,        \* position of main
    root_is_dir, \* whether args.dir names a directory
    dry_run,     \* args.dry_run of the current run
    disk,        \* per path: content hash, extension, and whether it decodes
    existing,    \* paths of the target directory that exist now
    exist0,      \* paths that existed when the current run started
    c_files,     \* main's local list `files`
    duplicates,  \* main's list of (duplicate path, canonical path)
    corrupts,    \* main's list of corrupt paths
    dup_i,       \* position of the loop of line 105
    cor_i,       \* position of the loop of line 114
    failures,    \* <<path, exception>> of every "[ERROR] Failed to delete" of the run
    last_scan,   \* what the previous run of main found, and under which flag
    runs,        \* number of runs of main started so far
    \* ---- batch_rename_images.py: resolve_collision ----
    r_pc,        \* position of resolve_collision
    target,      \* the destination as given: its stem and its extension
    target_path, \* the argument of resolve_collision
    on_disk,     \* the paths for which os.path.exists is true
    base, ext,   \* locals of resolve_collision
    idx,
    new_path

split_vars == <<s_pc, args, src0, src_dir, files, subsets, dest_dirs,
                dest_files, todo, moved, copied, errs>>
idx_vars == <<i_pc, i_n, i_ratios, i_idx>>
cleanup_vars == <<c_pc, root_is_dir, dry_run, disk, existing, exist0, c_files, duplicates,
                  corrupts, dup_i, cor_i, failures, last_scan, runs>>
rename_vars == <<r_pc, target, target_path, on_disk, base, ext, idx, new_path>>
vars == <<split_vars, idx_vars, cleanup_vars, rename_vars>>
not_split == <<idx_vars, cleanup_vars, rename_vars>>
not_idx == <<split_vars, cleanup_vars, rename_vars>>
not_cleanup == <<split_vars, idx_vars, rename_vars>>
not_rename == <<split_vars, idx_vars, cleanup_vars>>

-----------------------------------------------------------------------------
(* Bounds of the model *)

\* most files in a source directory of a modelled run of main
MaxFiles == 3
\* largest list length split_indices is called with, apart from LargeN
MaxN == 10
\* a list length with LargeN * 9e-7 >= 1
LargeN == 1111112
\* runs of cleanup_dataset.py on one directory
MaxRuns == 2
\* largest n for which stem_<n>ext may exist before resolve_collision runs
MaxTaken == 3

-----------------------------------------------------------------------------
(* Numbers *)

\* one unit of a ratio is 1/Scale
Scale == 10^7
\* the 1e-6 of validate_ratios, in units
Epsilon == Scale \div 10^6

abs(x) == IF x < 0 THEN -x ELSE x

\* Python int(n * r) for an integer n >= 0 and a ratio r: the product
\* truncated toward zero.  The whole and fractional units of r are
\* multiplied separately.
TruncMagnitude(n, r) == n * (r \div Scale) + (n * (r % Scale)) \div Scale
int_mul(n, r) == IF r >= 0 THEN TruncMagnitude(n, r) ELSE -TruncMagnitude(n, -r)

\* Python range(a, b): the integers from a up to b - 1 (none when b <= a);
\* list(range(a, b)) holds them in increasing order
range(a, b) == a..(b - 1)

Range(seq) == {seq[k] : k \in 1..Len(seq)}

RECURSIVE sorted(_)
\* Python sorted() of a set of file names (names are ordered as integers)
sorted(S) ==
    IF S = {} THEN <<>>
    ELSE LET m == CHOOSE x \in S : \A y \in S : x <= y
         IN  <<m>> \o sorted(S \ {m})

-----------------------------------------------------------------------------
(* split_dataset.py *)

\* the ratio values a command line is drawn from
RatioValues ==
    { -(Scale \div 2), 0, Scale \div 10, (3 * Scale) \div 20, Scale \div 5,
      Scale \div 2, (7 * Scale) \div 10, Scale, Scale + 9, (3 * Scale) \div 2 }

\* validate_ratios returns (TRUE) or calls sys.exit (FALSE)
\* variant: the sum is not checked
validate_ratios_no_check(train, val, test) == TRUE
validate_ratios(train, val, test) ==
    LET total == train + val + test
    IN  abs(total - Scale) < Epsilon

gather_files(dir) == sorted(dir)

split_indices(n, train_r, val_r) ==
    LET n_train == int_mul(n, train_r)
        n_val == int_mul(n, val_r)
    IN  << range(0, n_train),
           range(n_train, n_train + n_val),
           range(n_train + n_val, n) >>

\* Python seq[i]: negative indices count from the end; FALSE when the index
\* raises IndexError
index_ok(seq, i) == -Len(seq) <= i /\ i < Len(seq)
py_index(seq, i) == IF i >= 0 THEN seq[i + 1] ELSE seq[Len(seq) + i + 1]

SubsetNames == <<"train", "val", "test">>

NoSubsets == <<<<>>, <<>>, <<>>>>

\* the (subset, filename) pairs of the placement loop, in iteration order
RECURSIVE placement_order(_, _)
placement_order(subs, k) ==
    IF k > Len(subs) THEN <<>>
    ELSE [j \in 1..Len(subs[k]) |-> <<SubsetNames[k], subs[k][j]>>]
         \o placement_order(subs, k + 1)

SplitInit ==
    /\ s_pc = "start"
    /\ args \in [train_ratio : RatioValues, val_ratio : RatioValues,
                 test_ratio : RatioValues, move : BOOLEAN, preview : BOOLEAN]
    /\ \E n \in 0..MaxFiles : src0 = 1..n
    /\ src_dir = src0
    /\ files = <<>>
    /\ subsets = NoSubsets
    /\ dest_dirs = {}
    /\ dest_files = {}
    /\ todo = <<>>
    /\ moved = 0 /\ copied = 0 /\ errs = 0

\* main, line 111
ValidateRatios ==
    /\ s_pc = "start"
    /\ s_pc' = IF validate_ratios(args.train_ratio, args.val_ratio, args.test_ratio)
               THEN "validated" ELSE "exit_ratios"
    /\ UNCHANGED <<args, src0, src_dir, files, subsets, dest_dirs, dest_files,
                   todo, moved, copied, errs>>
    /\ UNCHANGED not_split

\* main, lines 113-115
GatherFiles ==
    /\ s_pc = "validated"
    /\ files' = gather_files(src_dir)
    /\ s_pc' = IF files' = <<>> THEN "exit_empty" ELSE "gathered"
    /\ UNCHANGED <<args, src0, src_dir, subsets, dest_dirs, dest_files, todo,
                   moved, copied, errs>>
    /\ UNCHANGED not_split

\* main, lines 117-118: the seeded shuffle yields some permutation
Shuffle ==
    /\ s_pc = "gathered"
    /\ \E p \in Permutations(1..Len(files)) :
          files' = [k \in 1..Len(files) |-> files[p[k]]]
    /\ s_pc' = "shuffled"
    /\ UNCHANGED <<args, src0, src_dir, subsets, dest_dirs, dest_files, todo,
                   moved, copied, errs>>
    /\ UNCHANGED not_split

\* main, lines 120-130: an index outside the list raises IndexError
BuildSubsets ==
    /\ s_pc = "shuffled"
    /\ LET picked == split_indices(Len(files), args.train_ratio, args.val_ratio)
           ok == \A k \in 1..3 : \A i \in picked[k] : index_ok(files, i)
       IN  IF ok
           THEN /\ subsets' = [k \in 1..3 |->
                                 LET order == sorted(picked[k])
                                 IN  [j \in 1..Len(order) |-> py_index(files, order[j])]]
                /\ s_pc' = "split"
           ELSE /\ subsets' = subsets
                /\ s_pc' = "index_error"
    /\ UNCHANGED <<args, src0, src_dir, files, dest_dirs, dest_files, todo,
                   moved, copied, errs>>
    /\ UNCHANGED not_split

\* main, lines 132-136
Preview ==
    /\ s_pc = "split"
    /\ s_pc' = IF args.preview THEN "exit_preview" ELSE "counted"
    /\ UNCHANGED <<args, src0, src_dir, files, subsets, dest_dirs, dest_files,
                   todo, moved, copied, errs>>
    /\ UNCHANGED not_split

\* main, line 138, and the start of the loop of line 141
MakeDirs ==
    /\ s_pc = "counted"
    /\ dest_dirs' = dest_dirs \cup Range(SubsetNames)
    /\ todo' = placement_order(subsets, 1)
    /\ s_pc' = "placing"
    /\ UNCHANGED <<args, src0, src_dir, files, subsets, dest_files, moved,
                   copied, errs>>
    /\ UNCHANGED not_split

\* main, lines 142-150: dispatch_file succeeds
PlaceOk ==
    /\ s_pc = "placing"
    /\ todo # <<>>
    /\ LET subset_name == Head(todo)[1]
           filename == Head(todo)[2]
       IN  /\ filename \in src_dir
           /\ dest_files' = dest_files \cup {<<subset_name, filename>>}
           /\ src_dir' = IF args.move THEN src_dir \ {filename} ELSE src_dir
    /\ moved' = IF args.move THEN moved + 1 ELSE moved
    /\ copied' = IF args.move THEN copied ELSE copied + 1
    /\ todo' = Tail(todo)
    /\ UNCHANGED <<s_pc, args, src0, files, subsets, dest_dirs, errs>>
    /\ UNCHANGED not_split

\* main, lines 151-153: dispatch_file raises (always when the source file is
\* gone, possibly otherwise)
PlaceFail ==
    /\ s_pc = "placing"
    /\ todo # <<>>
    /\ errs' = errs + 1
    /\ todo' = Tail(todo)
    /\ UNCHANGED <<s_pc, args, src0, src_dir, files, subsets, dest_dirs,
                   dest_files, moved, copied>>
    /\ UNCHANGED not_split

\* main, lines 155-156
Finish ==
    /\ s_pc = "placing"
    /\ todo = <<>>
    /\ s_pc' = "done"
    /\ UNCHANGED <<args, src0, src_dir, files, subsets, dest_dirs, dest_files,
                   todo, moved, copied, errs>>
    /\ UNCHANGED not_split

SplitNext ==
    \/ ValidateRatios
    \/ GatherFiles
    \/ Shuffle
    \/ BuildSubsets
    \/ Preview
    \/ MakeDirs
    \/ PlaceOk
    \/ PlaceFail
    \/ Finish

-----------------------------------------------------------------------------
(* split_indices on its own, for every list length and valid ratio triple *)

NonNegative(r) == \A k \in 1..3 : r[k] >= 0

SmallInputs ==
    {in \in (1..MaxN) \X (RatioValues \X RatioValues \X RatioValues) :
        /\ NonNegative(in[2])
        /\ validate_ratios(in[2][1], in[2][2], in[2][3])}

\* a long list with ratios that sum to 1.0000009
LargeInputs == {<<LargeN, <<Scale + 9, 0, 0>>>>, <<LargeN, <<Scale, 9, 0>>>>}

IdxInit ==
    /\ i_pc = "call"
    /\ \E in \in SmallInputs \cup LargeInputs :
          /\ i_n = in[1]
          /\ i_ratios = in[2]
    /\ i_idx = <<{}, {}, {}>>

CallSplitIndices ==
    /\ i_pc = "call"
    /\ i_idx' = split_indices(i_n, i_ratios[1], i_ratios[2])
    /\ i_pc' = "returned"
    /\ UNCHANGED <<i_n, i_ratios>>
    /\ UNCHANGED not_idx

IdxIdle == i_pc = "idle" /\ i_n = 0 /\ i_ratios = <<0, 0, 0>> /\ i_idx = <<{}, {}, {}>>

SplitIdle ==
    /\ s_pc = "idle"
    /\ args = [train_ratio |-> 0, val_ratio |-> 0, test_ratio |-> 0,
               move |-> FALSE, preview |-> FALSE]
    /\ src0 = {} /\ src_dir = {} /\ files = <<>> /\ subsets = NoSubsets
    /\ dest_dirs = {} /\ dest_files = {} /\ todo = <<>>
    /\ moved = 0 /\ copied = 0 /\ errs = 0

-----------------------------------------------------------------------------
(* cleanup_dataset.py *)

\* line 19
IMAGE_EXTENSIONS == {".jpg", ".jpeg", ".png", ".bmp", ".gif", ".tiff", ".webp"}

\* the extensions and content hashes of the files of a modelled directory
Extensions == {".JPG", ".txt"}
Hashes == {"H1", "H2"}

\* str.lower() on the extensions of the model
lower(e) == IF e = ".JPG" THEN ".jpg" ELSE e

\* what a file is: `content` is "ok" (decodes), "bad" (readable, does not
\* decode) or "unreadable" (open() raises OSError)
FileKinds ==
    {k \in [hash : Hashes, ext : Extensions, content : {"ok", "bad", "unreadable"}] :
        k.content = "unreadable" => k.hash = "H1"}

\* files with the same bytes have the same hash and decode alike
ConsistentContent(d) ==
    \A f, g \in DOMAIN d :
        (d[f].content # "unreadable" /\ d[g].content # "unreadable"
            /\ d[f].hash = d[g].hash) => d[f].content = d[g].content

\* compute_hash(path): raises IOError on an unreadable file
compute_hash_raises(path) == disk[path].content = "unreadable"
compute_hash(path) == disk[path].hash

\* the loop of find_duplicates from position k on; keep_last is FALSE in the
\* source (the map is written only for a hash not seen before)
RECURSIVE find_duplicates_loop(_, _, _, _, _)
find_duplicates_loop(file_paths, k, hashes, dups, keep_last) ==
    IF k > Len(file_paths) THEN [raised |-> FALSE, duplicates |-> dups]
    ELSE LET path == file_paths[k] IN
         IF compute_hash_raises(path) THEN [raised |-> TRUE, duplicates |-> <<>>]
         ELSE LET file_hash == compute_hash(path) IN
              IF file_hash \in DOMAIN hashes
              THEN find_duplicates_loop(
                       file_paths, k + 1,
                       IF keep_last THEN (file_hash :> path) @@ hashes ELSE hashes,
                       Append(dups, <<path, hashes[file_hash]>>), keep_last)
              ELSE find_duplicates_loop(
                       file_paths, k + 1, (file_hash :> path) @@ hashes,
                       dups, keep_last)

NoHashes == [h \in {} |-> 0]

\* variant: the map is overwritten on every file, so the previous occurrence
\* is taken as canonical
find_duplicates_keep_last(file_paths) ==
    find_duplicates_loop(file_paths, 1, NoHashes, <<>>, TRUE)
find_duplicates(file_paths) ==
    find_duplicates_loop(file_paths, 1, NoHashes, <<>>, FALSE)

\* is_corrupt_image: UnidentifiedImageError or OSError gives True
is_corrupt_image(path) == disk[path].content \in {"bad", "unreadable"}

\* main, lines 84-88
has_image_extension(path) == lower(disk[path].ext) \in IMAGE_EXTENSIONS

find_corrupts(file_paths) ==
    SelectSeq(file_paths, LAMBDA path : has_image_extension(path) /\ is_corrupt_image(path))

gather_all_files(dir) == sorted(dir)

\* the guard of lines 107 and 116
\* variant: the flag is ignored
deletes_always(dry) == TRUE
deletes(dry) == ~dry

NoScan == [files |-> <<>>, duplicates |-> <<>>, corrupts |-> <<>>,
           dry_run |-> FALSE, valid |-> FALSE]

CleanupInit ==
    /\ c_pc = "start"
    /\ dry_run \in BOOLEAN
    /\ root_is_dir \in BOOLEAN
    /\ \E n \in 0..MaxFiles : disk \in [1..n -> FileKinds]
    /\ ConsistentContent(disk)
    /\ ~root_is_dir => disk = <<>>
    /\ existing = DOMAIN disk
    /\ exist0 = existing
    /\ c_files = <<>>
    /\ duplicates = <<>>
    /\ corrupts = <<>>
    /\ dup_i = 1
    /\ cor_i = 1
    /\ failures = {}
    /\ last_scan = NoScan
    /\ runs = 1

\* main, lines 75-77
CheckDirectory ==
    /\ c_pc = "start"
    /\ c_pc' = IF root_is_dir THEN "checked" ELSE "exit_not_dir"
    /\ UNCHANGED <<root_is_dir, dry_run, disk, existing, exist0, c_files,
                   duplicates, corrupts, dup_i, cor_i, failures, last_scan,
                   runs>>
    /\ UNCHANGED not_cleanup

\* main, line 79
GatherAllFiles ==
    /\ c_pc = "checked"
    /\ c_files' = gather_all_files(existing)
    /\ c_pc' = "listed"
    /\ UNCHANGED <<root_is_dir, dry_run, disk, existing, exist0, duplicates,
                   corrupts, dup_i, cor_i, failures, last_scan, runs>>
    /\ UNCHANGED not_cleanup

\* main, line 82: the IOError of compute_hash is caught nowhere
FindDuplicates ==
    /\ c_pc = "listed"
    /\ LET r == find_duplicates(c_files)
       IN  /\ duplicates' = r.duplicates
           /\ c_pc' = IF r.raised THEN "io_error" ELSE "hashed"
    /\ UNCHANGED <<root_is_dir, dry_run, disk, existing, exist0, c_files,
                   corrupts, dup_i, cor_i, failures, last_scan, runs>>
    /\ UNCHANGED not_cleanup

\* main, lines 84-88
FindCorrupts ==
    /\ c_pc = "hashed"
    /\ corrupts' = find_corrupts(c_files)
    /\ c_pc' = "scanned"
    /\ UNCHANGED <<root_is_dir, dry_run, disk, existing, exist0, c_files,
                   duplicates, dup_i, cor_i, failures, last_scan, runs>>
    /\ UNCHANGED not_cleanup

\* main, lines 90-102
Summarize ==
    /\ c_pc = "scanned"
    /\ c_pc' = IF duplicates = <<>> /\ corrupts = <<>> THEN "done" ELSE "dup_loop"
    /\ UNCHANGED <<root_is_dir, dry_run, disk, existing, exist0, c_files,
                   duplicates, corrupts, dup_i, cor_i, failures, last_scan,
                   runs>>
    /\ UNCHANGED not_cleanup

\* line 109: the loop of line 105 removes dup_path, the first member of a pair
\* variant: orig_path is removed instead
removed_member_orig(pair) == pair[2]
removed_member(pair) == pair[1]

\* os.remove(path) in a try block: the file is removed, or the exception is
\* reported (FileNotFoundError when the path is gone, PermissionError otherwise)
Remove(path) ==
    \/ /\ path \in existing
       /\ existing' = existing \ {path}
       /\ failures' = failures
    \/ /\ path \in existing
       /\ existing' = existing
       /\ failures' = failures \cup {<<path, "PermissionError">>}
    \/ /\ path \notin existing
       /\ existing' = existing
       /\ failures' = failures \cup {<<path, "FileNotFoundError">>}

\* main, lines 105-111: one iteration
ProcessDuplicate ==
    /\ c_pc = "dup_loop"
    /\ dup_i <= Len(duplicates)
    /\ IF deletes(dry_run)
       THEN Remove(removed_member(duplicates[dup_i]))
       ELSE UNCHANGED <<existing, failures>>
    /\ dup_i' = dup_i + 1
    /\ UNCHANGED <<c_pc, root_is_dir, dry_run, disk, exist0, c_files,
                   duplicates, corrupts, cor_i, last_scan, runs>>
    /\ UNCHANGED not_cleanup

\* main, line 105: the loop is exhausted
DuplicatesProcessed ==
    /\ c_pc = "dup_loop"
    /\ dup_i > Len(duplicates)
    /\ c_pc' = "corrupt_loop"
    /\ UNCHANGED <<root_is_dir, dry_run, disk, existing, exist0, c_files,
                   duplicates, corrupts, dup_i, cor_i, failures, last_scan,
                   runs>>
    /\ UNCHANGED not_cleanup

\* main, lines 114-120: one iteration
ProcessCorrupt ==
    /\ c_pc = "corrupt_loop"
    /\ cor_i <= Len(corrupts)
    /\ IF deletes(dry_run)
       THEN Remove(corrupts[cor_i])
       ELSE UNCHANGED <<existing, failures>>
    /\ cor_i' = cor_i + 1
    /\ UNCHANGED <<c_pc, root_is_dir, dry_run, disk, exist0, c_files,
                   duplicates, corrupts, dup_i, last_scan, runs>>
    /\ UNCHANGED not_cleanup

\* main, lines 114 and 122-123: the loop is exhausted and main returns
CleanupComplete ==
    /\ c_pc = "corrupt_loop"
    /\ cor_i > Len(corrupts)
    /\ c_pc' = "done"
    /\ UNCHANGED <<root_is_dir, dry_run, disk, existing, exist0, c_files,
                   duplicates, corrupts, dup_i, cor_i, failures, last_scan,
                   runs>>
    /\ UNCHANGED not_cleanup

\* the tool is run again on the same directory, with either flag
RunAgain ==
    /\ c_pc = "done"
    /\ runs < MaxRuns
    /\ runs' = runs + 1
    /\ last_scan' = [files |-> c_files, duplicates |-> duplicates,
                     corrupts |-> corrupts, dry_run |-> dry_run, valid |-> TRUE]
    /\ dry_run' \in BOOLEAN
    /\ c_pc' = "start"
    /\ c_files' = <<>> /\ duplicates' = <<>> /\ corrupts' = <<>>
    /\ dup_i' = 1 /\ cor_i' = 1 /\ failures' = {}
    /\ exist0' = existing
    /\ UNCHANGED <<root_is_dir, disk, existing>>
    /\ UNCHANGED not_cleanup

CleanupNext ==
    \/ CheckDirectory
    \/ GatherAllFiles
    \/ FindDuplicates
    \/ FindCorrupts
    \/ Summarize
    \/ ProcessDuplicate
    \/ DuplicatesProcessed
    \/ ProcessCorrupt
    \/ CleanupComplete
    \/ RunAgain

CleanupIdle ==
    /\ c_pc = "idle" /\ root_is_dir = FALSE /\ dry_run = FALSE
    /\ disk = <<>> /\ existing = {}
    /\ exist0 = {} /\ c_files = <<>> /\ duplicates = <<>> /\ corrupts = <<>>
    /\ dup_i = 1 /\ cor_i = 1 /\ failures = {} /\ last_scan = NoScan /\ runs = 1

-----------------------------------------------------------------------------
(* batch_rename_images.py: a path is the sequence of its characters *)

Digit == <<"0", "1", "2", "3", "4", "5", "6", "7", "8", "9">>

\* Python str(n) for n >= 0
RECURSIVE str(_)
str(n) == IF n < 10 THEN <<Digit[n + 1]>> ELSE str(n \div 10) \o <<Digit[(n % 10) + 1]>>

\* str.rfind(c), as a position from 1, or 0 when c does not occur
rfind(p, c) ==
    LET at == {k \in 1..Len(p) : p[k] = c}
    IN  IF at = {} THEN 0 ELSE CHOOSE k \in at : \A j \in at : j <= k

\* os.path.splitext: the extension starts at the last dot of the last path
\* component, unless only dots precede it in that component
splitext(p) ==
    LET sepIndex == rfind(p, "/")
        dotIndex == rfind(p, ".")
    IN  IF /\ dotIndex > sepIndex
           /\ \E k \in (sepIndex + 1)..(dotIndex - 1) : p[k] # "."
        THEN <<SubSeq(p, 1, dotIndex - 1), SubSeq(p, dotIndex, Len(p))>>
        ELSE <<p, <<>>>>

\* line 83: f"{base}_{idx}{ext}"
\* variant: the extension is dropped
collision_path_no_ext(b, i, e) == b \o <<"_">> \o str(i)
collision_path(b, i, e) == b \o <<"_">> \o str(i) \o e


Img001 == <<"i", "m", "g", "_", "0", "0", "1">>
DotJpg == <<".", "j", "p", "g">>

\* destinations: img_001.jpg, img_001_1.jpg, d.v/img (a dot in the directory
\* only), .jpg (a leading dot starts no extension) and a.tar.gz
Targets ==
    { [stem |-> Img001, ext |-> DotJpg],
      [stem |-> Img001 \o <<"_", "1">>, ext |-> DotJpg],
      [stem |-> <<"d", ".", "v", "/", "i", "m", "g">>, ext |-> <<>>],
      [stem |-> DotJpg, ext |-> <<>>],
      [stem |-> <<"a", ".", "t", "a", "r">>, ext |-> <<".", "g", "z">>] }

\* the paths that may exist beside a destination: the destination itself,
\* stem_<n>ext for n up to MaxTaken, and stem_1 without the extension
Neighbours(t) ==
    {t.stem \o t.ext, t.stem \o <<"_", "1">>}
    \cup {t.stem \o <<"_">> \o str(n) \o t.ext : n \in 1..MaxTaken}

RenameInit ==
    /\ r_pc = "call"
    /\ target \in Targets
    /\ target_path = target.stem \o target.ext
    /\ on_disk \in SUBSET Neighbours(target)
    /\ base = <<>> /\ ext = <<>> /\ idx = 0 /\ new_path = <<>>

\* resolve_collision, lines 80-81
SplitTarget ==
    /\ r_pc = "call"
    /\ base' = splitext(target_path)[1]
    /\ ext' = splitext(target_path)[2]
    /\ idx' = 1
    /\ r_pc' = "loop"
    /\ UNCHANGED <<target, target_path, on_disk, new_path>>
    /\ UNCHANGED not_rename

\* resolve_collision, lines 83-86: one iteration of the loop
TryIndex ==
    /\ r_pc = "loop"
    /\ new_path' = collision_path(base, idx, ext)
    /\ IF new_path' \notin on_disk
       THEN r_pc' = "returned" /\ idx' = idx
       ELSE r_pc' = "loop" /\ idx' = idx + 1
    /\ UNCHANGED <<target, target_path, on_disk, base, ext>>
    /\ UNCHANGED not_rename

RenameNext ==
    \/ SplitTarget
    \/ TryIndex

RenameIdle ==
    /\ r_pc = "idle" /\ target = [stem |-> <<>>, ext |-> <<>>] /\ target_path = <<>>
    /\ on_disk = {} /\ base = <<>> /\ ext = <<>> /\ idx = 0 /\ new_path = <<>>

-----------------------------------------------------------------------------
(* Specifications: one per program; the other programs' state stays idle *)

InitSplit == SplitInit /\ IdxIdle /\ CleanupIdle /\ RenameIdle
InitIndices == IdxInit /\ SplitIdle /\ CleanupIdle /\ RenameIdle
InitCleanup == CleanupInit /\ SplitIdle /\ IdxIdle /\ RenameIdle
InitRename == RenameInit /\ SplitIdle /\ IdxIdle /\ CleanupIdle

SpecSplit == InitSplit /\ [][SplitNext]_vars

SpecIndices == InitIndices /\ [][CallSplitIndices]_vars

SpecCleanup == InitCleanup /\ [][CleanupNext]_vars

SpecRename == InitRename /\ [][RenameNext]_vars

-----------------------------------------------------------------------------
(* Properties of split_dataset.py *)

\* C1: for every list length n >= 1 and every valid ratio triple
\* (non-negative, summing to 1.0 within 1e-6) the train, val and test index
\* lists of split_indices are a disjoint cover of 0..n-1: every index of the
\* list is in exactly one of them, they hold nothing else, and their sizes
\* sum to n.
C1_DisjointCover ==
    i_pc = "returned" =>
        /\ \A k \in 1..3 : i_idx[k] \subseteq 0..(i_n - 1)
        /\ \A i \in 0..(i_n - 1) : Cardinality({k \in 1..3 : i \in i_idx[k]}) = 1
        /\ Cardinality(i_idx[1]) + Cardinality(i_idx[2]) + Cardinality(i_idx[3]) = i_n

\* floor(n * r) for n >= 0 and a ratio r >= 0 in units
floor_of_product(n, r) == n * (r \div Scale) + (n * (r % Scale)) \div Scale

\* C2: for every n and valid ratios, train has floor(n * r_train) items, val
\* has floor(n * r_val) items and test has the remaining
\* n - floor(n * r_train) - floor(n * r_val) items.
C2_RoundingPolicy ==
    i_pc = "returned" =>
        /\ Cardinality(i_idx[1]) = floor_of_product(i_n, i_ratios[1])
        /\ Cardinality(i_idx[2]) = floor_of_product(i_n, i_ratios[2])
        /\ Cardinality(i_idx[3]) = i_n - floor_of_product(i_n, i_ratios[1])
                                       - floor_of_product(i_n, i_ratios[2])

RatiosSumToOne ==
    LET total == args.train_ratio + args.val_ratio + args.test_ratio
    IN  total - Scale < Epsilon /\ Scale - total < Epsilon

\* C3: when the ratios do not sum to 1.0 within 1e-6, or the source directory
\* holds no file, the run never gets past its checks: it stops at the failed
\* check with no directory created, no file copied or moved, and the source
\* directory as it was.
C3_ConfigErrorsBeforeMutation ==
    (~RatiosSumToOne \/ src0 = {}) =>
        /\ s_pc \in {"start", "validated", "exit_ratios", "exit_empty"}
        /\ (s_pc = "validated" => RatiosSumToOne)
        /\ dest_dirs = {} /\ dest_files = {}
        /\ src_dir = src0
        /\ moved = 0 /\ copied = 0

\* the run with ratios (0.7, 0.2, 0.15) on a non-empty directory has aborted
C3_Witness ==
    /\ s_pc = "exit_ratios"
    /\ args.train_ratio = (7 * Scale) \div 10
    /\ args.val_ratio = Scale \div 5
    /\ args.test_ratio = (3 * Scale) \div 20
    /\ src0 # {}

\* C4: a ratio triple with a negative value is rejected by validation, so main
\* never gets past validate_ratios with one (split_indices is never run and
\* no subset is built from it).
C4_NegativeRatiosRejected ==
    (args.train_ratio < 0 \/ args.val_ratio < 0 \/ args.test_ratio < 0) =>
        s_pc \in {"start", "exit_ratios"}

-----------------------------------------------------------------------------
(* Properties of cleanup_dataset.py *)

ScanReturned == c_pc \in {"hashed", "scanned", "dup_loop", "corrupt_loop", "done"}
Snapshot == Range(c_files)
SameContent(f) == {g \in Snapshot : disk[g].hash = disk[f].hash}
DuplicateMembers == {duplicates[k][1] : k \in 1..Len(duplicates)}
Canonicals == {duplicates[k][2] : k \in 1..Len(duplicates)}

\* C5: once find_duplicates has returned, a file of the snapshot is the
\* duplicate member of a pair if and only if an earlier file (in path order)
\* has the same fingerprint; it is then in exactly one pair, whose canonical
\* path is the first file with that fingerprint; so k files with one
\* fingerprint give k-1 pairs and the first of them is never a duplicate member.
C5_FirstOccurrenceKept ==
    ScanReturned =>
        /\ \A f \in Snapshot :
              (f \in DuplicateMembers) <=> (\E g \in SameContent(f) : g < f)
        /\ \A k \in 1..Len(duplicates) :
              /\ duplicates[k][2] \in SameContent(duplicates[k][1])
              /\ \A g \in SameContent(duplicates[k][1]) : duplicates[k][2] <= g
        /\ \A f \in Snapshot :
              Cardinality({k \in 1..Len(duplicates) : duplicates[k][2] = f})
                  = IF \A g \in SameContent(f) : f <= g
                    THEN Cardinality(SameContent(f)) - 1 ELSE 0
        /\ Len(duplicates) = Cardinality(DuplicateMembers)

\* three files with one fingerprint: two pairs, both with the first file
C5_Witness ==
    /\ c_pc = "hashed"
    /\ c_files = <<1, 2, 3>>
    /\ disk[1].hash = disk[2].hash /\ disk[2].hash = disk[3].hash
    /\ duplicates = <<<<2, 1>>, <<3, 1>>>>

\* C6 as stated: after both deletion loops of a live run every canonical file
\* of a duplicate pair still exists.
C6_CanonicalNeverDeleted ==
    (c_pc = "done" /\ ~dry_run) => Canonicals \subseteq existing

\* C6, amended: the duplicate loop never deletes a canonical file; a canonical
\* file is gone only when the corrupt loop has reached it, because it is
\* itself in the corrupt list.
C6_CanonicalKeptUnlessCorrupt ==
    ScanReturned =>
        \A f \in Canonicals :
            f \notin existing =>
                /\ c_pc \in {"corrupt_loop", "done"}
                /\ \E j \in 1..(cor_i - 1) : corrupts[j] = f

\* a live run has deleted a duplicate and a corrupt file, and the canonical
\* file of the pair is still there
C6_Witness ==
    /\ c_pc = "done" /\ ~dry_run
    /\ duplicates # <<>>
    /\ duplicates[1][1] \notin existing
    /\ duplicates[1][2] \in existing
    /\ \E j \in 1..Len(corrupts) : corrupts[j] \notin existing

\* C7: a file whose hashing fails does not abort the scan: no run ends in the
\* IOError of compute_hash.
C7_HashErrorIsolated == c_pc # "io_error"

ClassificationDone == c_pc \in {"scanned", "dup_loop", "corrupt_loop", "done"}

\* C8: a dry run changes nothing in the directory, and a dry run and a live
\* run that list the same files report the same duplicate pairs and the same
\* corrupt list.
C8_DryRunEquivalence ==
    /\ dry_run => existing = exist0
    /\ ( /\ ClassificationDone
         /\ last_scan.valid
         /\ last_scan.dry_run # dry_run
         /\ last_scan.files = c_files )
       => /\ duplicates = last_scan.duplicates
          /\ corrupts = last_scan.corrupts

\* a live run that follows a dry run over the same files has finished, with
\* duplicates and corrupt files found and something deleted
C8_Witness ==
    /\ c_pc = "done" /\ ~dry_run
    /\ last_scan.valid /\ last_scan.dry_run
    /\ last_scan.files = c_files
    /\ duplicates # <<>> /\ corrupts # <<>>
    /\ existing # exist0

\* C10: for a file that is both a duplicate member and in the corrupt list, no
\* os.remove is attempted after the run has already deleted it, so no
\* deletion failure for a missing path is reported.
C10_NoDoubleDelete ==
    \A f \in DuplicateMembers \cap Range(corrupts) :
        <<f, "FileNotFoundError">> \notin failures

-----------------------------------------------------------------------------
(* Properties of batch_rename_images.py *)

Candidate(n) == target.stem \o <<"_">> \o str(n) \o target.ext

\* C9: resolve_collision returns stem_<n>ext for the smallest n >= 1 for which
\* that path does not exist; the result does not exist and ends with the
\* extension; the loop needs at most one more try than there are existing
\* paths.
C9_SmallestFreeSuffix ==
    /\ r_pc \in {"loop", "returned"} =>
          /\ base = target.stem /\ ext = target.ext
          /\ 1 <= idx /\ idx <= Cardinality(on_disk) + 1
          /\ \A n \in 1..(idx - 1) : Candidate(n) \in on_disk
    /\ r_pc = "returned" =>
          /\ new_path = Candidate(idx)
          /\ new_path \notin on_disk
          /\ SubSeq(new_path, Len(new_path) - Len(target.ext) + 1, Len(new_path))
                = target.ext

\* img_001_1.jpg and img_001_2.jpg exist: img_001.jpg resolves to img_001_3.jpg
C9_Witness ==
    /\ r_pc = "returned"
    /\ target_path = Img001 \o DotJpg
    /\ Img001 \o <<"_", "1">> \o DotJpg \in on_disk
    /\ Img001 \o <<"_", "2">> \o DotJpg \in on_disk
    /\ new_path = Img001 \o <<"_", "3">> \o DotJpg

=============================================================================
